---- MODULE Spec2Model ----
(***************************************************************************)
(* Model of pic-sorter (src/main.go): a sequential driver that lists the   *)
(* directory "images", and for every candidate image reads its GPS         *)
(* position, reverse-geocodes it, and renames the file into                *)
(* sorted_images/<country>/<state>/<state_district>/<county>/.             *)
(*                                                                         *)
(* Strings are sequences of one-character strings, so that suffix tests,   *)
(* space replacement and path joining are computed as the code computes    *)
(* them.  A path is the sequence of its segments.                          *)
(***************************************************************************)
EXTENDS Integers, Sequences, FiniteSets, TLC

VARIABLES
    dirReadable,  \* can os.ReadDir list the input directory
    dirEntries,   \* the entries of the input directory, in listing order
    files,        \* processImages: the listing os.ReadDir returned
    pc,           \* processImages: the statement about to run
    idx,          \* processImages: position of the range loop in files
    fs,           \* entry -> the path the entry is at now
    madeDirs,     \* directories os.MkdirAll has created
    out,          \* the lines written to standard output
    outcome,      \* entry -> the terminal states it has reached
    exifCalls,    \* entry -> calls of getGeoInfo
    geoCalls,     \* entry -> calls of getLocationDetails
    moveCalls,    \* entry -> calls of moveImage
    location,     \* processImages: the Place of the current file
    exitCode,     \* the exit code of the process, -1 while it runs
    geo,          \* a single call of getLocationDetails
    san           \* a single call of sanitize, and of sanitize on its result

vars == <<dirReadable, dirEntries, files, pc, idx, fs, madeDirs, out, outcome,
          exifCalls, geoCalls, moveCalls, location, exitCode, geo, san>>

(* ---------------------------- bounds ---------------------------------- *)
MaxFiles == 2
MaxLen == 3

(* ---------------------------- strings --------------------------------- *)
Unknown == <<"U","n","k","n","o","w","n">>
NilStr == <<"<","n","i","l",">">>
TrueStr == <<"t","r","u","e">>
EmptySliceStr == <<"[","]">>
ExtJpg == <<".","j","p","g">>
ExtJpeg == <<".","j","p","e","g">>
ExtPng == <<".","p","n","g">>
SortedImages == <<"s","o","r","t","e","d","_","i","m","a","g","e","s">>
imageDirectory == <<"i","m","a","g","e","s">>
Dot == <<".">>
DotDot == <<".",".">>

HasSuffix(s, suffix) ==
    /\ Len(s) >= Len(suffix)
    /\ SubSeq(s, Len(s) - Len(suffix) + 1, Len(s)) = suffix

(* strings.ReplaceAll(name, " ", "_") with the first-occurrence-only       *)
(* variant (strings.Replace(name, " ", "_", 1)) as the faulty version.     *)
sanitize_first(name) ==
    [i \in 1..Len(name) |->
        IF name[i] = " " /\ (\A j \in 1..(i-1) : name[j] # " ")
        THEN "_" ELSE name[i]]

sanitize(name) ==
    [i \in 1..Len(name) |-> IF name[i] = " " THEN "_" ELSE name[i]]

(* ---------------------------- paths ----------------------------------- *)
RECURSIVE SplitSlash(_)
SplitSlash(s) ==
    IF \A i \in 1..Len(s) : s[i] # "/"
    THEN <<s>>
    ELSE LET p == CHOOSE i \in 1..Len(s) :
                      s[i] = "/" /\ \A j \in 1..(i-1) : s[j] # "/"
         IN  <<SubSeq(s, 1, p - 1)>> \o SplitSlash(SubSeq(s, p + 1, Len(s)))

RECURSIVE CleanFrom(_, _)
CleanFrom(stack, segs) ==
    IF segs = <<>> THEN stack
    ELSE LET h == Head(segs)
             t == Tail(segs)
         IN  IF h = <<>> \/ h = Dot THEN CleanFrom(stack, t)
             ELSE IF h = DotDot
                  THEN IF stack # <<>> /\ stack[Len(stack)] # DotDot
                       THEN CleanFrom(SubSeq(stack, 1, Len(stack) - 1), t)
                       ELSE CleanFrom(Append(stack, h), t)
                  ELSE CleanFrom(Append(stack, h), t)

Clean(segs) ==
    LET c == CleanFrom(<<>>, segs) IN IF c = <<>> THEN <<Dot>> ELSE c

RECURSIVE SegsOf(_)
SegsOf(elems) ==
    IF elems = <<>> THEN <<>>
    ELSE IF Head(elems) = <<>> THEN SegsOf(Tail(elems))
         ELSE SplitSlash(Head(elems)) \o SegsOf(Tail(elems))

Join(elems) == Clean(SegsOf(elems))

Base(path) == path[Len(path)]

(* ---------------------------- JSON values ----------------------------- *)
(* A decoded JSON value (interface{}): t is its kind, v its text when it   *)
(* is a string.                                                            *)
JNull == [t |-> "null", v |-> <<>>]
JTrue == [t |-> "bool", v |-> <<>>]
JArray == [t |-> "array", v |-> <<>>]
JStr(s) == [t |-> "string", v |-> s]

Keys == {"country", "state", "state_district", "county"}

(* fmt.Sprintf("%v", value) *)
Sprintf_v(value) ==
    CASE value.t = "string" -> value.v
      [] value.t = "null" -> NilStr
      [] value.t = "bool" -> TrueStr
      [] value.t = "array" -> EmptySliceStr

getString(data, key) ==
    IF key \in DOMAIN data THEN Sprintf_v(data[key]) ELSE Unknown

StatusOK == 200

(* An HTTP exchange as the client sees it: transport (http.Get error),     *)
(* status, bodyRead (io.ReadAll error), json (does the body unmarshal      *)
(* into a map), addr (what data["address"] is) and, when addr is an        *)
(* object, its fields.                                                     *)
Resp(transport, status, bodyRead, json, addr, fields) ==
    [transport |-> transport, status |-> status, bodyRead |-> bodyRead,
     json |-> json, addr |-> addr, fields |-> fields]

NoLocation == <<>>

getLocationDetails(resp) ==
    IF ~resp.transport THEN [err |-> "transport", location |-> NoLocation]
    ELSE IF resp.status # StatusOK
         THEN [err |-> "API error", location |-> NoLocation]
    ELSE IF ~resp.bodyRead THEN [err |-> "read", location |-> NoLocation]
    ELSE IF ~resp.json THEN [err |-> "unmarshal", location |-> NoLocation]
    ELSE IF resp.addr # "object"
         THEN [err |-> "invalid address data", location |-> NoLocation]
    ELSE [err |-> "nil",
          location |-> [k \in Keys |-> getString(resp.fields, k)]]

(* ---------------------------- inputs ---------------------------------- *)
Alphabet == {"a", " ", "_", "/"}

Strings(n) == UNION {[1..k -> Alphabet] : k \in 0..n}

StrPool == { <<>>, <<"U","S">>, <<"a"," ","b">> }

JSONValues == {JNull, JTrue, JArray} \cup {JStr(s) : s \in StrPool}

AddressKeys == Keys \cup {"city"}

AddressObjects == UNION {[K -> JSONValues] : K \in SUBSET AddressKeys}

FailedResponses ==
    { Resp(FALSE, 0, FALSE, FALSE, "absent", <<>>),
      Resp(TRUE, 503, FALSE, FALSE, "absent", <<>>),
      Resp(TRUE, StatusOK, FALSE, FALSE, "absent", <<>>),
      Resp(TRUE, StatusOK, TRUE, FALSE, "absent", <<>>),
      Resp(TRUE, StatusOK, TRUE, TRUE, "absent", <<>>),
      Resp(TRUE, StatusOK, TRUE, TRUE, "notobject", <<>>) }

OkResponse(fields) == Resp(TRUE, StatusOK, TRUE, TRUE, "object", fields)

(* The address objects the driver's geocoder answers with. *)
AddressPool ==
    { <<>>,
      [country |-> JStr(<<"U","S">>), state |-> JStr(<<"a"," ","b">>),
       county |-> JStr(<<"a"," ","b">>)],
      [country |-> JStr(<<"U","S">>), state |-> JStr(<<"a","/","b">>),
       state_district |-> JStr(<<>>), county |-> JNull],
      [country |-> JStr(<<"U","S">>), state |-> JStr(<<"a"," ","b">>),
       state_district |-> JTrue, county |-> JStr(<<"a","/","b">>)] }

ResponsePool == FailedResponses \cup {OkResponse(a) : a \in AddressPool}

(* File names a listing is drawn from, in the byte order os.ReadDir sorts  *)
(* by.                                                                     *)
NamePool ==
    << <<".","j","p","g">>,
       <<"a",".","J","P","G">>,
       <<"a",".","j","p","e","g">>,
       <<"a",".","j","p","g">>,
       <<"a",".","p","n","g">>,
       <<"a",".","t","x","t">>,
       <<"a","j","p","g">> >>

RECURSIVE SeqOf(_)
SeqOf(S) ==
    IF S = {} THEN <<>>
    ELSE LET m == CHOOSE x \in S : \A y \in S : x <= y
         IN  <<m>> \o SeqOf(S \ {m})

Listings ==
    UNION { { [i \in 1..Cardinality(S) |->
                 [name |-> NamePool[SeqOf(S)[i]], isDir |-> d[SeqOf(S)[i]]]]
              : d \in [S -> BOOLEAN] }
            : S \in {T \in SUBSET (1..Len(NamePool)) : Cardinality(T) <= MaxFiles} }

(* ---------------------------- the driver ------------------------------ *)
Terminal == {"EXIF_FAIL", "GEOCODE_FAIL", "MOVE_FAIL", "MOVED"}

IsCandidate_nodircheck(file) ==
    \/ HasSuffix(file.name, ExtJpg)
    \/ HasSuffix(file.name, ExtJpeg)
    \/ HasSuffix(file.name, ExtPng)

IsCandidate(file) ==
    /\ ~file.isDir
    /\ \/ HasSuffix(file.name, ExtJpg)
       \/ HasSuffix(file.name, ExtJpeg)
       \/ HasSuffix(file.name, ExtPng)

Line(kind, i, err, place) == [kind |-> kind, idx |-> i, err |-> err, place |-> place]

ImagePath(i) == Join(<<imageDirectory, files[i].name>>)

FolderPath(loc) ==
    Join(<<SortedImages,
           sanitize(loc["country"]),
           sanitize(loc["state"]),
           sanitize(loc["state_district"]),
           sanitize(loc["county"])>>)

NewImagePath(imagePath, loc) ==
    Clean(FolderPath(loc) \o SplitSlash(Base(imagePath)))

(* os.Rename(old, new) on the files of the listing: the file at old is at  *)
(* new afterwards, and whatever other file was at new is replaced.         *)
Rename(fsmap, old, new) ==
    [j \in DOMAIN fsmap |->
        IF fsmap[j] = old THEN new
        ELSE IF fsmap[j] = new THEN <<>>
        ELSE fsmap[j]]

(* moveImage with the environment's answers: mkdirOK (os.MkdirAll) and     *)
(* renameOK (os.Rename).  Returns the error, the files and the created     *)
(* directories.                                                            *)
moveImage_copyfirst(fsmap, dirs, imagePath, loc, mkdirOK, renameOK) ==
    IF ~mkdirOK THEN [err |-> "mkdir", fs |-> fsmap, dirs |-> dirs]
    ELSE IF ~renameOK
         THEN [err |-> "rename",
               fs |-> Rename(fsmap, imagePath, NewImagePath(imagePath, loc)),
               dirs |-> dirs \cup {FolderPath(loc)}]
    ELSE [err |-> "nil",
          fs |-> Rename(fsmap, imagePath, NewImagePath(imagePath, loc)),
          dirs |-> dirs \cup {FolderPath(loc)}]

moveImage(fsmap, dirs, imagePath, loc, mkdirOK, renameOK) ==
    IF ~mkdirOK THEN [err |-> "mkdir", fs |-> fsmap, dirs |-> dirs]
    ELSE IF ~renameOK
         THEN [err |-> "rename", fs |-> fsmap,
               dirs |-> dirs \cup {FolderPath(loc)}]
    ELSE [err |-> "nil",
          fs |-> Rename(fsmap, imagePath, NewImagePath(imagePath, loc)),
          dirs |-> dirs \cup {FolderPath(loc)}]

Idle == [pc |-> "off"]

Init ==
    /\ dirReadable \in BOOLEAN
    /\ dirEntries \in Listings
    /\ files = <<>>
    /\ pc = "start"
    /\ idx = 0
    /\ fs = [i \in 1..Len(dirEntries) |-> <<imageDirectory, dirEntries[i].name>>]
    /\ madeDirs = {}
    /\ out = <<>>
    /\ outcome = [i \in 1..Len(dirEntries) |-> {}]
    /\ exifCalls = [i \in 1..Len(dirEntries) |-> 0]
    /\ geoCalls = [i \in 1..Len(dirEntries) |-> 0]
    /\ moveCalls = [i \in 1..Len(dirEntries) |-> 0]
    /\ location = NoLocation
    /\ exitCode = -1
    /\ geo = Idle
    /\ san = Idle

(* os.ReadDir(directory); log.Fatal on error *)
ReadDir_nofatal ==
    /\ pc = "start"
    /\ files' = IF dirReadable THEN dirEntries ELSE <<>>
    /\ pc' = "loop"
    /\ idx' = 1
    /\ UNCHANGED <<dirReadable, dirEntries, fs, madeDirs, out, outcome,
                   exifCalls, geoCalls, moveCalls, location, exitCode, geo, san>>

ReadDir ==
    /\ pc = "start"
    /\ IF dirReadable
       THEN /\ files' = dirEntries
            /\ pc' = "loop"
            /\ idx' = 1
            /\ UNCHANGED exitCode
       ELSE /\ pc' = "fatal"
            /\ exitCode' = 1
            /\ UNCHANGED <<files, idx>>
    /\ UNCHANGED <<dirReadable, dirEntries, fs, madeDirs, out, outcome,
                   exifCalls, geoCalls, moveCalls, location, geo, san>>

(* an entry the filter of the loop rejects *)
SkipEntry ==
    /\ pc = "loop"
    /\ idx <= Len(files)
    /\ ~IsCandidate(files[idx])
    /\ idx' = idx + 1
    /\ UNCHANGED <<dirReadable, dirEntries, files, pc, fs, madeDirs, out, outcome,
                   exifCalls, geoCalls, moveCalls, location, exitCode, geo, san>>

(* getGeoInfo(imagePath) and the handling of its error *)
GetGeoInfo_nocontinue ==
    /\ pc = "loop"
    /\ idx <= Len(files)
    /\ IsCandidate(files[idx])
    /\ exifCalls' = [exifCalls EXCEPT ![idx] = @ + 1]
    /\ \E ok \in BOOLEAN :
          IF ok
          THEN /\ pc' = "geo"
               /\ UNCHANGED <<out, outcome>>
          ELSE /\ out' = Append(out, Line("No GPS data found", idx, "exif", NoLocation))
               /\ outcome' = [outcome EXCEPT ![idx] = @ \cup {"EXIF_FAIL"}]
               /\ pc' = "geo"
    /\ UNCHANGED <<dirReadable, dirEntries, files, idx, fs, madeDirs,
                   geoCalls, moveCalls, location, exitCode, geo, san>>

GetGeoInfo_break ==
    /\ pc = "loop"
    /\ idx <= Len(files)
    /\ IsCandidate(files[idx])
    /\ exifCalls' = [exifCalls EXCEPT ![idx] = @ + 1]
    /\ \E ok \in BOOLEAN :
          IF ok
          THEN /\ pc' = "geo"
               /\ UNCHANGED <<out, outcome, idx>>
          ELSE /\ out' = Append(out, Line("No GPS data found", idx, "exif", NoLocation))
               /\ outcome' = [outcome EXCEPT ![idx] = @ \cup {"EXIF_FAIL"}]
               /\ idx' = Len(files) + 1
               /\ pc' = "loop"
    /\ UNCHANGED <<dirReadable, dirEntries, files, fs, madeDirs,
                   geoCalls, moveCalls, location, exitCode, geo, san>>

GetGeoInfo ==
    /\ pc = "loop"
    /\ idx <= Len(files)
    /\ IsCandidate(files[idx])
    /\ exifCalls' = [exifCalls EXCEPT ![idx] = @ + 1]
    /\ \E ok \in BOOLEAN :
          IF ok
          THEN /\ pc' = "geo"
               /\ UNCHANGED <<out, outcome, idx>>
          ELSE /\ out' = Append(out, Line("No GPS data found", idx, "exif", NoLocation))
               /\ outcome' = [outcome EXCEPT ![idx] = @ \cup {"EXIF_FAIL"}]
               /\ idx' = idx + 1
               /\ pc' = "loop"
    /\ UNCHANGED <<dirReadable, dirEntries, files, fs, madeDirs,
                   geoCalls, moveCalls, location, exitCode, geo, san>>

(* getLocationDetails(lat, lon) and the handling of its error *)
GetLocationDetails ==
    /\ pc = "geo"
    /\ geoCalls' = [geoCalls EXCEPT ![idx] = @ + 1]
    /\ \E resp \in ResponsePool :
          LET r == getLocationDetails(resp) IN
          IF r.err = "nil"
          THEN /\ location' = r.location
               /\ pc' = "print"
               /\ UNCHANGED <<out, outcome, idx>>
          ELSE /\ out' = Append(out, Line("Error getting location", idx, r.err, NoLocation))
               /\ outcome' = [outcome EXCEPT ![idx] = @ \cup {"GEOCODE_FAIL"}]
               /\ idx' = idx + 1
               /\ pc' = "loop"
               /\ UNCHANGED location
    /\ UNCHANGED <<dirReadable, dirEntries, files, fs, madeDirs,
                   exifCalls, moveCalls, exitCode, geo, san>>

(* fmt.Printf("Moving %s to %s/%s/%s/%s\n", ...) *)
PrintMoving ==
    /\ pc = "print"
    /\ out' = Append(out, Line("Moving", idx, "nil", location))
    /\ pc' = "move"
    /\ UNCHANGED <<dirReadable, dirEntries, files, idx, fs, madeDirs, outcome,
                   exifCalls, geoCalls, moveCalls, location, exitCode, geo, san>>

(* moveImage(imagePath, location) and the handling of its error *)
MoveImage_silent ==
    /\ pc = "move"
    /\ moveCalls' = [moveCalls EXCEPT ![idx] = @ + 1]
    /\ \E mkdirOK \in BOOLEAN, renameOK \in BOOLEAN :
          LET r == moveImage(fs, madeDirs, ImagePath(idx), location, mkdirOK, renameOK) IN
          /\ fs' = r.fs
          /\ madeDirs' = r.dirs
          /\ outcome' = [outcome EXCEPT ![idx] =
                            @ \cup {IF r.err = "nil" THEN "MOVED" ELSE "MOVE_FAIL"}]
          /\ UNCHANGED out
    /\ idx' = idx + 1
    /\ pc' = "loop"
    /\ UNCHANGED <<dirReadable, dirEntries, files,
                   exifCalls, geoCalls, location, exitCode, geo, san>>

MoveImage ==
    /\ pc = "move"
    /\ moveCalls' = [moveCalls EXCEPT ![idx] = @ + 1]
    /\ \E mkdirOK \in BOOLEAN, renameOK \in BOOLEAN :
          LET r == moveImage(fs, madeDirs, ImagePath(idx), location, mkdirOK, renameOK) IN
          /\ fs' = r.fs
          /\ madeDirs' = r.dirs
          /\ IF r.err = "nil"
             THEN /\ outcome' = [outcome EXCEPT ![idx] = @ \cup {"MOVED"}]
                  /\ UNCHANGED out
             ELSE /\ outcome' = [outcome EXCEPT ![idx] = @ \cup {"MOVE_FAIL"}]
                  /\ out' = Append(out, Line("Error moving file", idx, r.err, NoLocation))
    /\ idx' = idx + 1
    /\ pc' = "loop"
    /\ UNCHANGED <<dirReadable, dirEntries, files,
                   exifCalls, geoCalls, location, exitCode, geo, san>>

(* the loop is over: processImages and main return *)
Return ==
    /\ pc = "loop"
    /\ idx > Len(files)
    /\ pc' = "done"
    /\ exitCode' = 0
    /\ UNCHANGED <<dirReadable, dirEntries, files, idx, fs, madeDirs, out, outcome,
                   exifCalls, geoCalls, moveCalls, location, geo, san>>

Next ==
    \/ ReadDir
    \/ SkipEntry
    \/ GetGeoInfo
    \/ GetLocationDetails
    \/ PrintMoving
    \/ MoveImage
    \/ Return

Spec == Init /\ [][Next]_vars

(* The program is one thread: a statement that can run does run.  The      *)
(* exception is http.Get, issued on the default client with no timeout:    *)
(* the remote service owes no answer, so GetLocationDetails is not fair.   *)
FairSpec ==
    /\ Spec
    /\ WF_vars(ReadDir)
    /\ WF_vars(SkipEntry)
    /\ WF_vars(GetGeoInfo)
    /\ WF_vars(PrintMoving)
    /\ WF_vars(MoveImage)
    /\ WF_vars(Return)

(* ------------------- getLocationDetails on its own -------------------- *)
GeoResponses == FailedResponses \cup {OkResponse(a) : a \in AddressObjects}

GeoInit ==
    /\ dirReadable = FALSE
    /\ dirEntries = <<>>
    /\ files = <<>>
    /\ pc = "off"
    /\ idx = 0
    /\ fs = <<>>
    /\ madeDirs = {}
    /\ out = <<>>
    /\ outcome = <<>>
    /\ exifCalls = <<>>
    /\ geoCalls = <<>>
    /\ moveCalls = <<>>
    /\ location = NoLocation
    /\ exitCode = -1
    /\ san = Idle
    /\ \E resp \in GeoResponses : geo = [pc |-> "call", resp |-> resp]

GeoCall ==
    /\ geo.pc = "call"
    /\ geo' = [pc |-> "ret", resp |-> geo.resp, res |-> getLocationDetails(geo.resp)]
    /\ UNCHANGED <<dirReadable, dirEntries, files, pc, idx, fs, madeDirs, out, outcome,
                   exifCalls, geoCalls, moveCalls, location, exitCode, san>>

GeoNext == GeoCall

GeoSpec == GeoInit /\ [][GeoNext]_vars

(* ------------------------- sanitize on its own ------------------------ *)
SanInit ==
    /\ dirReadable = FALSE
    /\ dirEntries = <<>>
    /\ files = <<>>
    /\ pc = "off"
    /\ idx = 0
    /\ fs = <<>>
    /\ madeDirs = {}
    /\ out = <<>>
    /\ outcome = <<>>
    /\ exifCalls = <<>>
    /\ geoCalls = <<>>
    /\ moveCalls = <<>>
    /\ location = NoLocation
    /\ exitCode = -1
    /\ geo = Idle
    /\ \E s \in Strings(MaxLen) : san = [pc |-> "call", name |-> s]

SanCall ==
    /\ san.pc = "call"
    /\ san' = [pc |-> "once", name |-> san.name, res |-> sanitize(san.name)]
    /\ UNCHANGED <<dirReadable, dirEntries, files, pc, idx, fs, madeDirs, out, outcome,
                   exifCalls, geoCalls, moveCalls, location, exitCode, geo>>

SanCallAgain ==
    /\ san.pc = "once"
    /\ san' = [pc |-> "twice", name |-> san.name, res |-> san.res,
               res2 |-> sanitize(san.res)]
    /\ UNCHANGED <<dirReadable, dirEntries, files, pc, idx, fs, madeDirs, out, outcome,
                   exifCalls, geoCalls, moveCalls, location, exitCode, geo>>

SanNext == SanCall \/ SanCallAgain

SanSpec == SanInit /\ [][SanNext]_vars

(* ============================ properties ============================== *)
Entries == 1..Len(dirEntries)

(* a candidate image as section 4.5 of the specification defines it *)
Cand(i) ==
    /\ dirEntries[i].isDir = FALSE
    /\ \E ext \in {ExtJpg, ExtJpeg, ExtPng} :
          /\ Len(dirEntries[i].name) >= Len(ext)
          /\ \A k \in 1..Len(ext) :
                dirEntries[i].name[Len(dirEntries[i].name) - Len(ext) + k] = ext[k]

OriginalPath(i) == <<imageDirectory, dirEntries[i].name>>

LinesFor(i) == Cardinality({n \in 1..Len(out) : out[n].idx = i})

Failures == {"EXIF_FAIL", "GEOCODE_FAIL", "MOVE_FAIL"}

(* C1: when the run has gone through a listing, every candidate image has  *)
(* reached exactly one of EXIF_FAIL, GEOCODE_FAIL, MOVE_FAIL, MOVED,       *)
(* whatever happened to the files before it.                               *)
C1_EveryCandidateTerminal ==
    pc = "done" =>
        \A i \in Entries :
            Cand(i) => /\ Cardinality(outcome[i]) = 1
                       /\ outcome[i] \subseteq Terminal

C1_Witness ==
    /\ pc = "done"
    /\ Len(dirEntries) >= 2
    /\ outcome[1] \in {{"EXIF_FAIL"}, {"GEOCODE_FAIL"}, {"MOVE_FAIL"}}
    /\ outcome[2] = {"MOVED"}

(* C2: a candidate that ended in a per-file failure is still at its        *)
(* original path in the input directory, and a file that is no longer      *)
(* there ended in MOVED.                                                   *)
C2_FailedFilesStay ==
    \A i \in Entries :
        /\ outcome[i] \cap Failures # {} => fs[i] = OriginalPath(i)
        /\ fs[i] # OriginalPath(i) => outcome[i] = {"MOVED"}

C2_Witness ==
    /\ pc = "done"
    /\ \E i \in Entries :
          /\ outcome[i] = {"MOVE_FAIL"}
          /\ fs[i] = OriginalPath(i)
          /\ madeDirs # {}
    /\ \E j \in Entries : outcome[j] = {"MOVED"} /\ fs[j] # OriginalPath(j)

(* C3: an entry goes through the pipeline iff it is not a directory and    *)
(* its name ends in .jpg, .jpeg or .png (case-sensitive); any other entry  *)
(* stays where it is, is never read, geocoded or moved, and gets no        *)
(* output line.                                                            *)
C3_OnlyCandidatesProcessed ==
    /\ \A i \in Entries :
          ~Cand(i) => /\ fs[i] = OriginalPath(i)
                      /\ exifCalls[i] = 0
                      /\ geoCalls[i] = 0
                      /\ moveCalls[i] = 0
                      /\ outcome[i] = {}
                      /\ LinesFor(i) = 0
    /\ pc = "done" => \A i \in Entries : Cand(i) => exifCalls[i] = 1

C3_Witness ==
    /\ pc = "done"
    /\ \E i \in Entries :
          /\ dirEntries[i].isDir
          /\ HasSuffix(dirEntries[i].name, ExtJpg)
          /\ fs[i] = OriginalPath(i)
    /\ \E j \in Entries : outcome[j] = {"MOVED"}

C3_WitnessUpperCase ==
    /\ pc = "done"
    /\ \E i \in Entries :
          /\ ~dirEntries[i].isDir
          /\ dirEntries[i].name = <<"a",".","J","P","G">>
          /\ exifCalls[i] = 0
    /\ \E j \in Entries : outcome[j] = {"MOVED"}

(* C4: after moveImage succeeded the file is at                            *)
(* sorted_images/sanitize(country)/sanitize(state)/                        *)
(* sanitize(state_district)/sanitize(county)/<its own name>, four levels   *)
(* below sorted_images.                                                    *)
C4_FourLevelDestination ==
    (pc = "loop" /\ idx > 1 /\ outcome[idx - 1] = {"MOVED"}) =>
        fs[idx - 1] = << SortedImages,
                         sanitize(location["country"]),
                         sanitize(location["state"]),
                         sanitize(location["state_district"]),
                         sanitize(location["county"]),
                         dirEntries[idx - 1].name >>

(* C5: a successful getLocationDetails returns a Place with exactly the    *)
(* keys country, state, state_district, county, each a non-empty string.   *)
C5_PlaceComplete ==
    (geo.pc = "ret" /\ geo.res.err = "nil") =>
        /\ DOMAIN geo.res.location = Keys
        /\ \A k \in Keys : geo.res.location[k] # <<>>

(* C6: a field of the address object that is missing or null comes back    *)
(* as Unknown, and an address object without the four fields is a success  *)
(* with four Unknown.                                                      *)
C6_UnknownForMissingOrNull ==
    (geo.pc = "ret" /\ geo.resp \in {OkResponse(a) : a \in AddressObjects}) =>
        /\ geo.res.err = "nil"
        /\ \A k \in Keys :
              (k \notin DOMAIN geo.resp.fields \/ geo.resp.fields[k] = JNull)
                  => geo.res.location[k] = Unknown

(* How a run ends: fatally (exit code 1) iff the input directory cannot be *)
(* listed, and then nothing was read, geocoded, moved or printed;          *)
(* otherwise with exit code 0 after the last entry.                        *)
C7_ExitState ==
    /\ pc = "fatal" => /\ ~dirReadable
                       /\ exitCode = 1
                       /\ out = <<>>
                       /\ madeDirs = {}
                       /\ \A i \in Entries :
                             /\ exifCalls[i] = 0
                             /\ geoCalls[i] = 0
                             /\ moveCalls[i] = 0
                             /\ fs[i] = OriginalPath(i)
    /\ pc = "done" => /\ dirReadable
                      /\ exitCode = 0
                      /\ idx = Len(dirEntries) + 1
    /\ pc \notin {"fatal", "done"} => exitCode = -1
    /\ ~dirReadable => pc \in {"start", "fatal"}

(* C7 as stated: every run terminates, and it ends as C7_ExitState says.   *)
C7_TerminatesFatalIffUnlistable ==
    /\ <>(pc \in {"fatal", "done"})
    /\ []C7_ExitState

(* C7 amended: a run in which every geocoding request completes            *)
(* terminates, and every run ends as C7_ExitState says.                    *)
C7_TerminatesIfRequestsComplete ==
    /\ [](pc = "geo" => <>(pc # "geo")) => <>(pc \in {"fatal", "done"})
    /\ []C7_ExitState

C7_WitnessAllFailed ==
    /\ pc = "done"
    /\ exitCode = 0
    /\ Len(dirEntries) >= 2
    /\ \A i \in Entries : Cand(i) /\ outcome[i] \subseteq Failures

C7_Witness ==
    /\ pc = "fatal"
    /\ exitCode = 1
    /\ \E i \in Entries : Cand(i)

(* C8 as stated: every candidate, whatever its outcome, has exactly one    *)
(* line on standard output.                                                *)
C8_OneLinePerCandidate ==
    pc = "done" => \A i \in Entries : Cand(i) => LinesFor(i) = 1

(* C8 amended: a candidate has exactly one line on standard output when    *)
(* it ends in EXIF_FAIL, GEOCODE_FAIL or MOVED, and exactly two (Moving,   *)
(* then Error moving file) when it ends in MOVE_FAIL.                      *)
C8_OneLineOrTwoOnMoveFail ==
    pc = "done" =>
        \A i \in Entries :
            Cand(i) =>
                IF outcome[i] = {"MOVE_FAIL"}
                THEN /\ LinesFor(i) = 2
                     /\ \E m, n \in 1..Len(out) :
                           /\ m < n
                           /\ out[m].idx = i /\ out[m].kind = "Moving"
                           /\ out[n].idx = i /\ out[n].kind = "Error moving file"
                ELSE LinesFor(i) = 1

C8_Witness ==
    /\ pc = "done"
    /\ \E i \in Entries : outcome[i] = {"MOVE_FAIL"} /\ LinesFor(i) = 2
    /\ \E j \in Entries : outcome[j] = {"MOVED"} /\ LinesFor(j) = 1

(* C9: sanitize(s) has no space, and sanitize(sanitize(s)) = sanitize(s).  *)
C9_SanitizeNoSpaceIdempotent ==
    /\ san.pc \in {"once", "twice"} =>
          /\ Len(san.res) = Len(san.name)
          /\ \A i \in 1..Len(san.res) : san.res[i] # " "
    /\ san.pc = "twice" => san.res2 = san.res

C9_Witness ==
    /\ san.pc = "twice"
    /\ Cardinality({i \in 1..Len(san.name) : san.name[i] = " "}) >= 2
    /\ san.res # san.name

(* C10: per file the stages run once each and in order: geocoding only     *)
(* after a successful EXIF read, the move only after a successful          *)
(* geocoding and after the Moving line; and no stage of a file starts      *)
(* before every earlier candidate has reached its terminal state.          *)
C10_StagesInOrderNoRetry ==
    \A i \in Entries :
        /\ exifCalls[i] <= 1 /\ geoCalls[i] <= 1 /\ moveCalls[i] <= 1
        /\ geoCalls[i] = 1 => exifCalls[i] = 1 /\ "EXIF_FAIL" \notin outcome[i]
        /\ moveCalls[i] = 1 =>
              /\ geoCalls[i] = 1
              /\ "GEOCODE_FAIL" \notin outcome[i]
              /\ \E n \in 1..Len(out) : out[n].idx = i /\ out[n].kind = "Moving"
        /\ \A j \in Entries :
              (i < j /\ Cand(i) /\ exifCalls[j] > 0) =>
                  /\ outcome[i] # {}
                  /\ outcome[i] \subseteq Terminal

C10_Witness ==
    /\ pc = "move"
    /\ idx = 2
    /\ outcome[1] = {"MOVED"}
    /\ geoCalls[2] = 1
    /\ moveCalls[2] = 0

====
